---- MODULE Spec2Model ----
(***************************************************************************)
(* Rent payment ledger: the submission form (src/app.py) that appends rows *)
(* to a shared sheet and uploads receipts to a file store, and the two     *)
(* dashboards (src/Dashboard.py, built on pandas, and                      *)
(* src/pages/Dashboard.py, plain Python) that read the sheet back.         *)
(*                                                                         *)
(* A text value is a sequence of characters, each character a one-letter   *)
(* string; PESO stands for the currency glyph U+20B1.  Amounts are held in *)
(* hundredths.  A calendar date is <<year, month, day>>.                   *)
(***************************************************************************)
EXTENDS Integers, Sequences, FiniteSets, TLC

VARIABLES
    variant,          \* which dashboard script is deployed: "root" | "pages"
    secret,           \* st.secrets["DASHBOARD_PASSWORD"]
    header,           \* the sheet's first row
    rows,             \* the sheet's data rows, oldest first
    drive,            \* the files held by the binary store
    now,              \* index into Instants: the wall clock
    formResult,       \* what the last form submission showed
    dashboard_auth,   \* st.session_state.dashboard_auth
    view,             \* what the last dashboard run rendered
    probe             \* input and result of a function applied on its own

vars == <<variant, secret, header, rows, drive, now, formResult,
          dashboard_auth, view, probe>>

-----------------------------------------------------------------------------
(* Characters and the str methods the scripts use *)

PESO == "PESO"

UpperCase == <<"A","B","C","D","E","F","G","H","I","J","K","L","M",
               "N","O","P","Q","R","S","T","U","V","W","X","Y","Z">>
LowerCase == <<"a","b","c","d","e","f","g","h","i","j","k","l","m",
               "n","o","p","q","r","s","t","u","v","w","x","y","z">>
Digits == <<"0","1","2","3","4","5","6","7","8","9">>

\* The characters in code point order
CharOrder == <<"\t", " ", "(", ")", "+", ",", "-", ".", "/">> \o Digits
             \o <<":">> \o UpperCase \o <<"_">> \o LowerCase \o <<PESO>>

IndexIn(c, seq) == CHOOSE i \in 1..Len(seq) : seq[i] = c
Occurs(c, seq) == \E i \in 1..Len(seq) : seq[i] = c

OrdMap == [c \in {CharOrder[i] : i \in 1..Len(CharOrder)} |-> IndexIn(c, CharOrder)]
ord(c) == OrdMap[c]

DigitSet == {Digits[i] : i \in 1..10}
IsDigit(c) == c \in DigitSet
IsUpper(c) == Occurs(c, UpperCase)
IsLower(c) == Occurs(c, LowerCase)
Whitespace == {" ", "\t"}

LowerMap == [c \in DOMAIN OrdMap |->
                IF IsUpper(c) THEN LowerCase[IndexIn(c, UpperCase)] ELSE c]
UpperMap == [c \in DOMAIN OrdMap |->
                IF IsLower(c) THEN UpperCase[IndexIn(c, LowerCase)] ELSE c]
lower_char(c) == LowerMap[c]
upper_char(c) == UpperMap[c]

\* A list comprehension: the function f over 1..n, as a sequence
list(f) == SubSeq(f, 1, Len(f))

lower(s) == list([i \in 1..Len(s) |-> lower_char(s[i])])
upper(s) == list([i \in 1..Len(s) |-> upper_char(s[i])])

RECURSIVE lstrip(_)
lstrip(s) == IF s # <<>> /\ Head(s) \in Whitespace THEN lstrip(Tail(s)) ELSE s

RECURSIVE rstrip(_)
rstrip(s) ==
    IF s # <<>> /\ s[Len(s)] \in Whitespace
    THEN rstrip(SubSeq(s, 1, Len(s) - 1))
    ELSE s

strip(s) == rstrip(lstrip(s))

\* s.replace(c, "") for a one-character c
remove_char(s, c) == SelectSeq(s, LAMBDA x : x # c)

\* Python's order on str: by code point, a proper prefix first
RECURSIVE str_lt(_, _)
str_lt(a, b) ==
    IF b = <<>> THEN FALSE
    ELSE IF a = <<>> THEN TRUE
    ELSE IF Head(a) # Head(b) THEN ord(Head(a)) < ord(Head(b))
    ELSE str_lt(Tail(a), Tail(b))

AllDigits(s) == \A i \in 1..Len(s) : IsDigit(s[i])

RECURSIVE nat_of(_)
nat_of(ds) ==
    IF ds = <<>> THEN 0
    ELSE 10 * nat_of(SubSeq(ds, 1, Len(ds) - 1)) + (IndexIn(ds[Len(ds)], Digits) - 1)

RECURSIVE digits_of(_)
digits_of(n) ==
    IF n < 10 THEN <<Digits[n + 1]>>
    ELSE Append(digits_of(n \div 10), Digits[(n % 10) + 1])

\* n written in at least w digits, zero padded (strftime's %Y, %m, %d, ...)
RECURSIVE zero_pad(_, _)
zero_pad(ds, w) == IF Len(ds) >= w THEN ds ELSE zero_pad(<<"0">> \o ds, w)

fmt(n, w) == zero_pad(digits_of(n), w)

FirstIndex(c, s) ==
    IF Occurs(c, s) THEN CHOOSE i \in 1..Len(s) : s[i] = c /\ \A j \in 1..(i-1) : s[j] # c
    ELSE 0

-----------------------------------------------------------------------------
(* The sheet's columns: the headers the scripts expect, and the other      *)
(* headers src/Dashboard.py accepts for each                                *)

COL_TIMESTAMP == <<"t","i","m","e","s","t","a","m","p">>
COL_UNIT == <<"u","n","i","t","_","n","u","m","b","e","r">>
COL_NAME == <<"t","e","n","a","n","t","_","n","a","m","e">>
COL_AMOUNT == <<"a","m","o","u","n","t","_","p","a","i","d">>
COL_DATE == <<"p","a","y","m","e","n","t","_","d","a","t","e">>
COL_MODE == <<"p","a","y","m","e","n","t","_","m","o","d","e">>
COL_PROOF == <<"p","r","o","o","f","_","f","i","l","e","_","u","r","l">>
COL_NOTES == <<"n","o","t","e","s">>

FALLBACKS_TIMESTAMP ==
    << <<"t","i","m","e","s","t","a","m","p">>,
       <<"s","u","b","m","i","t","t","e","d"," ","t","i","m","e","s","t","a","m","p">>,
       <<"t","i","m","e">> >>
FALLBACKS_UNIT ==
    << <<"u","n","i","t">>,
       <<"u","n","i","t"," ","n","u","m","b","e","r">>,
       <<"u","n","i","t","_","n","o">> >>
FALLBACKS_NAME ==
    << <<"f","u","l","l"," ","n","a","m","e">>,
       <<"n","a","m","e">>,
       <<"t","e","n","a","n","t"," ","n","a","m","e">> >>
FALLBACKS_AMOUNT ==
    << <<"a","m","o","u","n","t">>,
       <<"a","m","o","u","n","t"," ","p","a","i","d">>,
       <<"a","m","o","u","n","t"," ","(",PESO,")">> >>
FALLBACKS_DATE ==
    << <<"d","a","t","e">>,
       <<"p","a","y","m","e","n","t"," ","d","a","t","e">>,
       <<"d","a","t","e"," ","o","f"," ","p","a","y","m","e","n","t">> >>
FALLBACKS_MODE ==
    << <<"m","o","d","e">>,
       <<"p","a","y","m","e","n","t"," ","m","o","d","e">> >>
FALLBACKS_PROOF ==
    << <<"p","r","o","o","f">>,
       <<"p","r","o","o","f"," ","u","r","l">>,
       <<"r","e","c","e","i","p","t">>,
       <<"r","e","c","e","i","p","t"," ","l","i","n","k">> >>
FALLBACKS_NOTES ==
    << <<"n","o","t","e","s">>,
       <<"r","e","m","a","r","k","s">> >>

Fields == 1..8
PRIMARY == <<COL_TIMESTAMP, COL_UNIT, COL_NAME, COL_AMOUNT,
             COL_DATE, COL_MODE, COL_PROOF, COL_NOTES>>
FALLBACKS == <<FALLBACKS_TIMESTAMP, FALLBACKS_UNIT, FALLBACKS_NAME, FALLBACKS_AMOUNT,
               FALLBACKS_DATE, FALLBACKS_MODE, FALLBACKS_PROOF, FALLBACKS_NOTES>>
F_TIMESTAMP == 1
F_UNIT == 2
F_NAME == 3
F_AMOUNT == 4
F_DATE == 5
F_MODE == 6
F_PROOF == 7
F_NOTES == 8
RequiredFields == <<F_UNIT, F_AMOUNT, F_DATE>>

InColumns(c, columns) == \E i \in 1..Len(columns) : columns[i] = c

\* headers_lower = {str(c).strip().lower(): c for c in df.columns}, held as
\* the keys in column order: of two headers with one key the later one stays
headers_lower(columns) == list([i \in 1..Len(columns) |-> lower(strip(columns[i]))])

HasKey(hl, key) == \E i \in 1..Len(hl) : hl[i] = key

\* headers_lower[key]
lookup(columns, hl, key) ==
    LET last == CHOOSE i \in 1..Len(hl) :
                    hl[i] = key /\ \A j \in (i + 1)..Len(hl) : hl[j] # key
    IN columns[last]

RECURSIVE first_fallback(_, _, _, _)
first_fallback(columns, hl, primary, fallbacks) ==
    IF fallbacks = <<>> THEN primary
    ELSE LET key == lower(strip(Head(fallbacks))) IN
         IF HasKey(hl, key) THEN lookup(columns, hl, key)
         ELSE first_fallback(columns, hl, primary, Tail(fallbacks))

\* A resolver that compares the headers as they are, without lower-casing
col_or_fallback_case_sensitive(columns, hl, primary, fallbacks) ==
    IF InColumns(primary, columns) THEN primary
    ELSE first_fallback(columns, list([i \in 1..Len(columns) |-> strip(columns[i])]),
                        primary, fallbacks)

col_or_fallback(columns, hl, primary, fallbacks) ==
    IF InColumns(primary, columns) THEN primary
    ELSE first_fallback(columns, hl, primary, fallbacks)

\* COL_TIMESTAMP .. COL_NOTES as a run uses them: src/Dashboard.py resolves
\* each (lines 89-96), src/pages/Dashboard.py keeps the expected headers
resolved(v, columns) ==
    IF v = "root"
    THEN LET hl == headers_lower(columns)
         IN list([f \in 1..8 |-> col_or_fallback(columns, hl, PRIMARY[f], FALLBACKS[f])])
    ELSE PRIMARY

-----------------------------------------------------------------------------
(* Value coercion *)

\* float(s) for a decimal literal: an optional sign, digits, an optional
\* point and digits.  The value is in hundredths, further digits dropped.
\* (Exponents, "inf", "nan" and digit-group underscores are not modelled.)
py_float(s) ==
    LET signed == s # <<>> /\ Head(s) \in {"+", "-"}
        neg    == s # <<>> /\ Head(s) = "-"
        body   == IF signed THEN Tail(s) ELSE s
        dot    == FirstIndex(".", body)
        ip     == IF dot = 0 THEN body ELSE SubSeq(body, 1, dot - 1)
        fp     == IF dot = 0 THEN <<>> ELSE SubSeq(body, dot + 1, Len(body))
        ok     == AllDigits(ip) /\ AllDigits(fp) /\ (ip # <<>> \/ fp # <<>>)
        mag    == 100 * nat_of(ip) + nat_of(SubSeq(fp \o <<"0", "0">>, 1, 2))
    IN [ok |-> ok, val |-> IF ok THEN (IF neg THEN 0 - mag ELSE mag) ELSE 0]

\* A coercion that leaves the currency glyph in place
to_float_safe_keep_glyph(x) ==
    LET s == strip(remove_char(x, ","))
    IN IF s = <<>> THEN 0
       ELSE IF py_float(s).ok THEN py_float(s).val ELSE 0

to_float_safe(x) ==
    LET s == strip(remove_char(remove_char(x, PESO), ","))
    IN IF s = <<>> THEN 0
       ELSE IF py_float(s).ok THEN py_float(s).val ELSE 0

NoDate == <<>>

IsLeap(y) == (y % 4 = 0 /\ y % 100 # 0) \/ y % 400 = 0
days_in_month(y, m) ==
    IF m = 2 THEN (IF IsLeap(y) THEN 29 ELSE 28)
    ELSE IF m \in {4, 6, 9, 11} THEN 30 ELSE 31

\* strptime's %m and %d: (1[0-2]|0[1-9]|[1-9]) and
\* (3[0-1]|[1-2]\d|0[1-9]|[1-9]| [1-9])
MonthText(ms) ==
    \/ Len(ms) = 1 /\ IsDigit(ms[1]) /\ ms[1] # "0"
    \/ Len(ms) = 2 /\ ms[1] = "0" /\ IsDigit(ms[2]) /\ ms[2] # "0"
    \/ Len(ms) = 2 /\ ms[1] = "1" /\ ms[2] \in {"0", "1", "2"}
DayText(ds) ==
    \/ Len(ds) = 1 /\ IsDigit(ds[1]) /\ ds[1] # "0"
    \/ Len(ds) = 2 /\ ds[1] \in {"0", " "} /\ IsDigit(ds[2]) /\ ds[2] # "0"
    \/ Len(ds) = 2 /\ ds[1] \in {"1", "2"} /\ IsDigit(ds[2])
    \/ Len(ds) = 2 /\ ds[1] = "3" /\ ds[2] \in {"0", "1"}

\* datetime.strptime(t, "%Y-%m-%d").date(), NoDate for a ValueError
strptime_ymd(t) ==
    IF Len(t) < 6 \/ ~AllDigits(SubSeq(t, 1, 4)) \/ t[5] # "-" THEN NoDate
    ELSE LET rest == SubSeq(t, 6, Len(t))
             dash == FirstIndex("-", rest)
         IN IF dash = 0 THEN NoDate
            ELSE LET ms == SubSeq(rest, 1, dash - 1)
                     ds == SubSeq(rest, dash + 1, Len(rest))
                     y  == nat_of(SubSeq(t, 1, 4))
                 IN IF ~MonthText(ms) \/ ~DayText(ds) THEN NoDate
                    ELSE LET m == nat_of(ms)
                             d == nat_of(lstrip(ds))
                         IN IF y >= 1 /\ d <= days_in_month(y, m)
                            THEN <<y, m, d>> ELSE NoDate

parse_date_safe(s) == strptime_ymd(strip(s))

\* date.strftime("%Y-%m-%d")
strftime_ymd(d) == fmt(d[1], 4) \o <<"-">> \o fmt(d[2], 2) \o <<"-">> \o fmt(d[3], 2)

\* Order on dates and on timestamps: tuples of numbers, most significant first
RECURSIVE tuple_lt(_, _)
tuple_lt(a, b) ==
    IF a = <<>> \/ b = <<>> THEN FALSE
    ELSE IF Head(a) # Head(b) THEN Head(a) < Head(b)
    ELSE tuple_lt(Tail(a), Tail(b))
tuple_le(a, b) == a = b \/ tuple_lt(a, b)

-----------------------------------------------------------------------------
(* Bounds of the model *)

MaxHeaders == 2     \* headers in a header row drawn for the column resolver
MaxCellLen == 3     \* characters in an amount cell drawn for the coercion

-----------------------------------------------------------------------------
(* The state every specification starts from, but for what it draws *)

NoView == [kind |-> "none", read |-> FALSE]
NoResult == [kind |-> "none"]
NoProbe == [fn |-> "none"]
PASSWORD == <<"p", "w">>

SeqsUpTo(S, n) == UNION {[1..k -> S] : k \in 0..n}

(* The column resolver on its own: src/Dashboard.py lines 78-96 applied to *)
(* a header row.                                                           *)

Padded(s) == <<" ">> \o s \o <<" ">>
HeaderForms(s) == {s, upper(s), Padded(s)}

\* Headers a sheet may carry for field f: each accepted header as written,
\* in capitals and padded; the expected header, also in capitals; the
\* expected header of the next field
HeaderPool(f) ==
    UNION {HeaderForms(FALLBACKS[f][k]) : k \in 1..Len(FALLBACKS[f])}
    \cup {PRIMARY[f], upper(PRIMARY[f]), PRIMARY[(f % 8) + 1]}

ResolverProbesOf(f) ==
    {[fn |-> "col_or_fallback", field |-> f, columns |-> cs,
      done |-> FALSE, result |-> <<>>] : cs \in SeqsUpTo(HeaderPool(f), MaxHeaders)}

Idle ==
    /\ variant = "root"
    /\ secret = PASSWORD
    /\ header = PRIMARY
    /\ rows = <<>>
    /\ drive = <<>>
    /\ now = 1
    /\ formResult = NoResult
    /\ dashboard_auth = FALSE
    /\ view = NoView

InitResolver ==
    /\ Idle
    /\ probe \in UNION {ResolverProbesOf(f) : f \in Fields}

Resolve ==
    /\ probe.fn = "col_or_fallback"
    /\ ~probe.done
    /\ probe' = [probe EXCEPT
                    !.done = TRUE,
                    !.result = col_or_fallback(probe.columns, headers_lower(probe.columns),
                                               PRIMARY[probe.field],
                                               FALLBACKS[probe.field])]
    /\ UNCHANGED <<variant, secret, header, rows, drive, now, formResult,
                   dashboard_auth, view>>

SpecResolver == InitResolver /\ [][Resolve]_vars

(* The amount coercion on its own: df[COL_AMOUNT].apply(to_float_safe)     *)
(* over a column of raw cells.                                             *)

CellAlphabet == {PESO, ",", " ", "-", ".", "0", "5", "x"}
GoodCell == <<PESO, "1", ",", "5", "0", "0", ".", "0", "0">>

AmountColumns ==
    UNION {{<<c>>, <<c, GoodCell>>, <<GoodCell, c>>} : c \in SeqsUpTo(CellAlphabet, MaxCellLen)}

InitCoercer ==
    /\ Idle
    /\ probe \in {[fn |-> "to_float_safe", column |-> col, done |-> FALSE, result |-> <<>>] :
                    col \in AmountColumns}

Coerce ==
    /\ probe.fn = "to_float_safe"
    /\ ~probe.done
    /\ probe' = [probe EXCEPT
                    !.done = TRUE,
                    !.result = [i \in 1..Len(probe.column) |-> to_float_safe(probe.column[i])]]
    /\ UNCHANGED <<variant, secret, header, rows, drive, now, formResult,
                   dashboard_auth, view>>

SpecCoercer == InitCoercer /\ [][Coerce]_vars

-----------------------------------------------------------------------------
Norm(h) == lower(strip(h))
SynonymHits(cols, f) ==
    {k \in 1..Len(FALLBACKS[f]) :
        \E i \in 1..Len(cols) : Norm(cols[i]) = Norm(FALLBACKS[f][k])}
MinOf(S) == CHOOSE x \in S : \A y \in S : x <= y

(* C4: column resolution returns (a) the primary name when it is among the *)
(* headers verbatim; otherwise (b) the actual header matched by the first  *)
(* synonym, in declaration order, that equals some header after            *)
(* lower-casing and trimming both; otherwise (c) the primary name          *)
(* unchanged.  So whenever a declared synonym is present in any case or    *)
(* padding, the result is a header that is actually present.               *)
C4_ResolutionOrder ==
    (probe.fn = "col_or_fallback" /\ probe.done) =>
        LET cols == probe.columns
            f    == probe.field
            hits == SynonymHits(cols, f)
            res  == probe.result
        IN /\ InColumns(PRIMARY[f], cols) => res = PRIMARY[f]
           /\ (~InColumns(PRIMARY[f], cols) /\ hits # {}) =>
                 /\ InColumns(res, cols)
                 /\ Norm(res) = Norm(FALLBACKS[f][MinOf(hits)])
           /\ (~InColumns(PRIMARY[f], cols) /\ hits = {}) => res = PRIMARY[f]
           /\ hits # {} => InColumns(res, cols)

\* Reached: a header row without the primary name, whose only match is a
\* later synonym written in another case, has been resolved to that header
C4_Witness ==
    /\ probe.fn = "col_or_fallback" /\ probe.done
    /\ ~InColumns(PRIMARY[probe.field], probe.columns)
    /\ SynonymHits(probe.columns, probe.field) # {}
    /\ MinOf(SynonymHits(probe.columns, probe.field)) > 1
    /\ InColumns(probe.result, probe.columns)
    /\ probe.result # lower(probe.result)

-----------------------------------------------------------------------------
Cleaned(cell) == strip(remove_char(remove_char(cell, PESO), ","))
Count(c, s) == Cardinality({i \in 1..Len(s) : s[i] = c})
IsUnsignedLiteral(u) ==
    /\ \A i \in 1..Len(u) : IsDigit(u[i]) \/ u[i] = "."
    /\ Count(".", u) <= 1
    /\ \E i \in 1..Len(u) : IsDigit(u[i])
Unsigned(s) == IF s # <<>> /\ Head(s) \in {"+", "-"} THEN Tail(s) ELSE s
IsLiteral(s) == IsUnsignedLiteral(Unsigned(s))

\* a negative literal gives the value of its unsigned part, negated
AmountOk_Neg(s, amount) ==
    AllDigits(Tail(s)) => amount = 0 - 100 * nat_of(Tail(s))

AmountOk(cell, amount) ==
    LET s == Cleaned(cell) IN
    /\ amount \in Int
    /\ ~IsLiteral(s) => amount = 0
    /\ (IsLiteral(s) /\ Head(s) # "-") => amount >= 0
    /\ (IsLiteral(s) /\ AllDigits(s)) => amount = 100 * nat_of(s)
    /\ (IsLiteral(s) /\ Head(s) = "-") => amount <= 0 /\ AmountOk_Neg(s, amount)

(* C5, as amended: every raw amount cell is coerced to a number, 0 when    *)
(* the cell, with the currency glyph, the commas and the surrounding       *)
(* blanks removed, is empty or no decimal literal; a literal without a     *)
(* minus sign gives a number >= 0, its value when it is all digits; a      *)
(* literal with a minus sign is passed through as that value negated, so   *)
(* it is never above 0.  No cell aborts the coercion of the others: the    *)
(* result has one number per cell and the well-formed cell beside a        *)
(* malformed one keeps its value.                                          *)
C5_AmountCoercion ==
    (probe.fn = "to_float_safe" /\ probe.done) =>
        /\ Len(probe.result) = Len(probe.column)
        /\ \A i \in 1..Len(probe.column) : AmountOk(probe.column[i], probe.result[i])
        /\ \A i \in 1..Len(probe.column) :
              probe.column[i] = GoodCell => probe.result[i] = 150000

\* Reached: a column holding a cell that is no number beside a well-formed
\* one has been coerced
C5_Witness ==
    /\ probe.fn = "to_float_safe" /\ probe.done
    /\ Len(probe.column) = 2
    /\ probe.column[2] = GoodCell
    /\ Occurs("x", probe.column[1])
    /\ probe.result = <<0, 150000>>

\* C5 as the spec states it: the normalized amount is never negative
C5_NeverNegative ==
    (probe.fn = "to_float_safe" /\ probe.done) =>
        \A i \in 1..Len(probe.result) : probe.result[i] >= 0

-----------------------------------------------------------------------------
(* The clock: datetime.now(APP_TZ) in the dashboards, datetime.now() in    *)
(* the form                                                                 *)

Instants ==
    << [date |-> <<2024, 2, 29>>, time |-> <<23, 59, 59>>],
       [date |-> <<2024, 3, 20>>, time |-> <<9, 5, 0>>] >>

\* today.replace(day=1)
month_start(today) == <<today[1], today[2], 1>>

\* A window that leaves today itself out
in_month_before_today(d, today) ==
    d # NoDate /\ tuple_le(month_start(today), d) /\ tuple_lt(d, today)

\* notna() & (d >= month_start) & (d <= today)
in_month(d, today) ==
    d # NoDate /\ tuple_le(month_start(today), d) /\ tuple_le(d, today)

RECURSIVE sum(_)
sum(xs) == IF xs = <<>> THEN 0 ELSE Head(xs) + sum(Tail(xs))

\* A boolean mask applied to the rows: the indices it keeps, ascending
select_idx(mask) == SelectSeq(list([i \in 1..Len(mask) |-> i]), LAMBDA i : mask[i])

-----------------------------------------------------------------------------
(* What pandas.to_datetime(..., errors="coerce") does with a column is     *)
(* pandas's, not the repository's: a cell strptime rejects becomes NaT, a  *)
(* cell in the exact zero-padded form is parsed, and a cell in a looser    *)
(* form (padded with blanks, not zero-padded, a date where a timestamp is  *)
(* written elsewhere) is parsed or becomes NaT, depending on the pandas    *)
(* release and on the format inferred from the column's first cell.        *)

NaT == <<>>

StrictDateText(t) ==
    /\ Len(t) = 10
    /\ AllDigits(SubSeq(t, 1, 4)) /\ t[5] = "-"
    /\ AllDigits(SubSeq(t, 6, 7)) /\ t[8] = "-"
    /\ AllDigits(SubSeq(t, 9, 10))
    /\ strptime_ymd(t) # NoDate

StrictTimeText(t) ==
    /\ Len(t) = 8
    /\ AllDigits(SubSeq(t, 1, 2)) /\ t[3] = ":"
    /\ AllDigits(SubSeq(t, 4, 5)) /\ t[6] = ":"
    /\ AllDigits(SubSeq(t, 7, 8))
    /\ nat_of(SubSeq(t, 1, 2)) < 24
    /\ nat_of(SubSeq(t, 4, 5)) < 60
    /\ nat_of(SubSeq(t, 7, 8)) < 60

StrictTimestampText(t) ==
    /\ Len(t) = 19
    /\ StrictDateText(SubSeq(t, 1, 10))
    /\ t[11] = " "
    /\ StrictTimeText(SubSeq(t, 12, 19))

\* The instant a timestamp cell denotes, <<y, m, d, H, M, S>>, NaT when it
\* denotes none: "%Y-%m-%d %H:%M:%S" as the form writes it, or a date alone
timestamp_of(s) ==
    LET t == strip(s) IN
    IF StrictTimestampText(t)
    THEN strptime_ymd(SubSeq(t, 1, 10))
         \o <<nat_of(SubSeq(t, 12, 13)), nat_of(SubSeq(t, 15, 16)), nat_of(SubSeq(t, 18, 19))>>
    ELSE IF StrictDateText(t) THEN strptime_ymd(t) \o <<0, 0, 0>>
    ELSE NaT

pd_to_date(cell) ==
    LET d == parse_date_safe(cell) IN
    IF d = NoDate THEN {NaT}
    ELSE IF StrictDateText(cell) THEN {d}
    ELSE {NaT, d}

pd_to_timestamp(cell) ==
    LET k == timestamp_of(cell) IN
    IF k = NaT THEN {NaT}
    ELSE IF StrictTimestampText(cell) THEN {k}
    ELSE {NaT, k}

\* Every sequence that takes its i-th element from the i-th set
RECURSIVE product(_)
product(sets) ==
    IF sets = <<>> THEN {<<>>}
    ELSE {<<x>> \o rest : x \in Head(sets), rest \in product(Tail(sets))}

\* The columns pandas may make of a column, given what it may make of
\* each cell
pd_to_datetime(choices) == product(choices)

-----------------------------------------------------------------------------
(* Filter and sort *)

RECURSIVE sorted_strs(_)
sorted_strs(S) ==
    IF S = {} THEN <<>>
    ELSE LET m == CHOOSE x \in S : \A y \in S : x = y \/ str_lt(x, y)
         IN <<m>> \o sorted_strs(S \ {m})

ALL == <<"A", "l", "l">>

Range(s) == {s[i] : i \in 1..Len(s)}

\* sort_values("_ts_sort", ascending=False): descending, and the NaT rows
\* last in the order they came (na_position="last").  The default kind is
\* quicksort, which is not stable: rows with equal keys come in any order.
ts_desc_ok(a, b) == b = NaT \/ (a # NaT /\ tuple_le(b, a))

\* A sort that puts the earliest first
sort_values_ascending(idx, keys) ==
    LET n == Len(idx) IN
    {p \in [1..n -> Range(idx)] :
        /\ \A i, j \in 1..n : i # j => p[i] # p[j]
        /\ \A i \in 1..(n - 1) : ts_desc_ok(keys[p[i + 1]], keys[p[i]])}

sort_values(idx, keys) ==
    LET n == Len(idx) IN
    {p \in [1..n -> Range(idx)] :
        /\ \A i, j \in 1..n : i # j => p[i] # p[j]
        /\ \A i \in 1..(n - 1) : ts_desc_ok(keys[p[i]], keys[p[i + 1]])
        /\ \A i \in 1..(n - 1) : keys[p[i]] = NaT => p[i] < p[i + 1]}

\* sorted(filtered, key=sort_key, reverse=True): by the timestamp text,
\* greatest first, rows with equal keys in the order they came
RECURSIVE sorted_reverse(_, _)
sorted_reverse(idx, keys) ==
    IF idx = <<>> THEN <<>>
    ELSE LET top == CHOOSE k \in 1..Len(idx) :
                      /\ \A j \in 1..Len(idx) : ~str_lt(keys[idx[k]], keys[idx[j]])
                      /\ \A j \in 1..(k - 1) : keys[idx[j]] # keys[idx[k]]
         IN <<idx[top]>> \o
            sorted_reverse(SubSeq(idx, 1, top - 1) \o SubSeq(idx, top + 1, Len(idx)), keys)

-----------------------------------------------------------------------------
(* The dashboard script, one run from top to bottom *)

\* A gate that lets a run with a wrong password through
password_gate_open(auth, pwd, configured) ==
    IF auth THEN "pass" ELSE IF pwd = configured THEN "rerun" ELSE "pass"

\* if not st.session_state.dashboard_auth: ... st.rerun() / st.stop()
password_gate(auth, pwd, configured) ==
    IF auth THEN "pass" ELSE IF pwd = configured THEN "rerun" ELSE "stop"

\* must_get_secret stops the run on an empty secret; st.secrets[...] does not
must_get_secret(v, val) == v = "pages" => val # <<>>

\* A check that forgets the amount column
missing_cols_unit_date(columns, cols) ==
    SelectSeq(<<cols[F_UNIT], cols[F_DATE]>>, LAMBDA c : ~InColumns(c, columns))

\* missing = [c for c in required if c not in df.columns]
missing_cols(columns, cols) ==
    SelectSeq(<<cols[F_UNIT], cols[F_AMOUNT], cols[F_DATE]>>,
              LAMBDA c : ~InColumns(c, columns))

\* display_cols: src/Dashboard.py shows the columns it found, the other
\* script always the eight
display_cols(v, columns, cols) ==
    IF v = "root" THEN SelectSeq(cols, LAMBDA c : InColumns(c, columns)) ELSE PRIMARY

\* if selected_unit != "All": df[df["_unit_clean"] == selected_unit]
filter_by_unit(units, selected) ==
    IF selected # ALL
    THEN select_idx([i \in 1..Len(units) |-> units[i] = selected])
    ELSE list([i \in 1..Len(units) |-> i])

unit_list(units) == sorted_strs(Range(units) \ {<<>>})

\* The rows in the order the table shows them
table_orders(v, has_timestamp, filtered, keys) ==
    IF v = "root"
    THEN (IF has_timestamp THEN sort_values(filtered, keys) ELSE {filtered})
    ELSE {sorted_reverse(filtered, keys)}

RECURSIVE sum_at(_, _)
sum_at(xs, idx) == IF idx = <<>> THEN 0 ELSE xs[Head(idx)] + sum_at(xs, Tail(idx))

\* df_month / rows_month
month_rows(dates, today) == select_idx([i \in 1..Len(dates) |-> in_month(dates[i], today)])

column_of(rws, columns, c, default) ==
    IF InColumns(c, columns)
    THEN LET k == IndexIn(c, columns) IN list([i \in 1..Len(rws) |-> rws[i][k]])
    ELSE list([i \in 1..Len(rws) |-> default])

dashboard(amounts, units, dates, keys, today, options, sel, filtered, table, shown) ==
    [kind |-> "dashboard", read |-> TRUE,
     amounts |-> amounts, units |-> units, dates |-> dates, ts_sort |-> keys,
     today |-> today,
     total_collected_all |-> sum(amounts),
     total_collected_month |-> sum_at(amounts, month_rows(dates, today)),
     options |-> options, sel |-> sel, filtered |-> filtered,
     table |-> table, display_cols |-> shown]

\* What a run past the gate, on a sheet with data and the required columns,
\* can render, the user having picked entry sel of the unit select box
render(v, columns, cols, rws, today, sel) ==
    LET n        == Len(rws)
        acells   == column_of(rws, columns, cols[F_AMOUNT], <<"0">>)
        ucells   == column_of(rws, columns, cols[F_UNIT], <<>>)
        dcells   == column_of(rws, columns, cols[F_DATE], <<>>)
        tcells   == column_of(rws, columns, cols[F_TIMESTAMP], <<>>)
        amounts  == list([i \in 1..n |-> to_float_safe(acells[i])])
        units    == list([i \in 1..n |-> strip(ucells[i])])
        dates    == IF v = "root" THEN pd_to_datetime(list([i \in 1..n |-> pd_to_date(dcells[i])]))
                    ELSE {list([i \in 1..n |-> parse_date_safe(dcells[i])])}
        keysets  == IF v = "root" THEN pd_to_datetime(list([i \in 1..n |-> pd_to_timestamp(tcells[i])]))
                    ELSE {tcells}
        options  == <<ALL>> \o unit_list(units)
        filtered == filter_by_unit(units, options[sel])
        shown    == display_cols(v, columns, cols)
        has_ts   == InColumns(cols[F_TIMESTAMP], columns)
    IN IF sel \notin 1..Len(options) THEN {}
       ELSE UNION {
            {dashboard(amounts, units, dk[1], dk[2], today, options, sel, filtered, t, shown) :
                 t \in table_orders(v, has_ts, filtered, dk[2])} :
            dk \in dates \X keysets}

\* Everything one run can end in: <<session flag, what is on the page>>
run_outcomes(pwd, sel) ==
    LET gate == password_gate(dashboard_auth, pwd, secret)
        cols == resolved(variant, header)
        missing == missing_cols(header, cols)
    IN
    IF ~must_get_secret(variant, secret)
    THEN {<<dashboard_auth, [kind |-> "missing_secret", read |-> FALSE]>>}
    ELSE IF gate = "rerun"
    THEN {<<TRUE, [kind |-> "rerun", read |-> FALSE, pwd |-> pwd]>>}
    ELSE IF gate = "stop"
    THEN {<<dashboard_auth, [kind |-> "gate", read |-> FALSE, pwd |-> pwd]>>}
    ELSE IF rows = <<>>
    THEN {<<dashboard_auth, [kind |-> "nodata", read |-> TRUE]>>}
    ELSE IF missing # <<>>
    THEN {<<dashboard_auth, [kind |-> "schema_error", read |-> TRUE,
                             missing |-> missing, columns |-> header]>>}
    ELSE {<<dashboard_auth, r>> : r \in render(variant, header, cols, rows, Instants[now].date, sel)}

Passwords == {<<>>, PASSWORD, <<"x">>}

DashboardRun(pwd, sel) ==
    /\ \E out \in run_outcomes(pwd, sel) :
          /\ dashboard_auth' = out[1]
          /\ view' = out[2]
    /\ UNCHANGED <<variant, secret, header, rows, drive, now, formResult, probe>>

-----------------------------------------------------------------------------
(* The dashboards over sheets as an administrator may have left them: the  *)
(* header row in one of four layouts, the data rows drawn from SampleRows. *)

MaxRows == 2     \* data rows in a drawn sheet

SynonymHeader ==
    << <<"T","i","m","e","s","t","a","m","p">>,
       <<"U","n","i","t">>,
       <<"F","u","l","l"," ","N","a","m","e">>,
       <<"A","m","o","u","n","t">>,
       <<" ","D","a","t","e"," ">>,
       <<"M","o","d","e">>,
       <<"R","e","c","e","i","p","t">>,
       <<"R","e","m","a","r","k","s">> >>

SampleRows ==
    << <<<<"2","0","2","4","-","0","3","-","1","5"," ","1","0",":","0","0",":","0","0">>,
         <<"2","A">>, <<"A","l">>, <<PESO,"1",",","5","0","0",".","0","0">>,
         <<"2","0","2","4","-","0","3","-","1","5">>, <<"C","a","s","h">>, <<>>, <<>>>>,
       <<<<"2","0","2","4","-","0","3","-","1","5"," ","1","0",":","0","0",":","0","0">>,
         <<" ","2","A"," ">>, <<"A","l">>, <<"5","0","0">>,
         <<"n","o","t","-","a","-","d","a","t","e">>, <<"C","a","s","h">>, <<>>, <<>>>>,
       <<<<"n","/","a">>,
         <<"A","l","l">>, <<"A","l">>, <<"-","2","0","0">>,
         <<"2","0","2","4","-","0","3","-","0","1">>, <<"C","a","s","h">>, <<>>, <<>>>>,
       <<<<>>,
         <<>>, <<"A","l">>, <<"a","b","c">>,
         <<"2","0","2","4","-","0","2","-","2","9">>, <<"C","a","s","h">>, <<>>, <<>>>>,
       <<<<"2","0","2","4","-","0","3","-","2","0"," ","0","9",":","0","5",":","0","0">>,
         <<"2","a">>, <<"A","l">>, <<"1","0","0","0">>,
         <<"2","0","2","4","-","0","3","-","2","0">>, <<"C","a","s","h">>, <<>>, <<>>>>,
       <<<<"2","0","2","4","-","0","3","-","1","6"," ","0","8",":","0","0",":","0","0">>,
         <<"2","A">>, <<"A","l">>, <<"7","0",".","5">>,
         <<" ","2","0","2","4","-","3","-","5"," ">>, <<"C","a","s","h">>, <<>>, <<>>>> >>

\* Each layout: the header texts, and the field each column holds
Layouts ==
    { [texts |-> PRIMARY, fields |-> <<1, 2, 3, 4, 5, 6, 7, 8>>],
      [texts |-> SynonymHeader, fields |-> <<1, 2, 3, 4, 5, 6, 7, 8>>],
      [texts |-> <<COL_TIMESTAMP, COL_UNIT, COL_NAME, COL_DATE, COL_MODE, COL_PROOF, COL_NOTES>>,
       fields |-> <<1, 2, 3, 5, 6, 7, 8>>],
      [texts |-> <<COL_UNIT, COL_AMOUNT, COL_DATE>>, fields |-> <<2, 4, 5>>] }

project(layout, logical) == [k \in 1..Len(layout.fields) |-> logical[layout.fields[k]]]

InitDashboard ==
    /\ variant \in {"root", "pages"}
    /\ secret = PASSWORD
    /\ \E layout \in Layouts, picks \in SeqsUpTo(1..Len(SampleRows), MaxRows) :
          /\ header = layout.texts
          /\ rows = [i \in 1..Len(picks) |-> project(layout, SampleRows[picks[i]])]
    /\ drive = <<>>
    /\ now \in 1..Len(Instants)
    /\ formResult = NoResult
    /\ dashboard_auth = FALSE
    /\ view = NoView
    /\ probe = NoProbe

\* The password box is on the page only before the gate is passed, the unit
\* select box only after
NextDashboard ==
    \/ \E pwd \in Passwords : ~dashboard_auth /\ DashboardRun(pwd, 1)
    \/ \E sel \in 1..(Len(rows) + 1) : dashboard_auth /\ DashboardRun(<<>>, sel)

SpecDashboard == InitDashboard /\ [][NextDashboard]_vars

-----------------------------------------------------------------------------
(* What the dashboard claims are stated over *)

\* A field resolves when some header of the sheet stands for it: the
\* expected header itself and, in src/Dashboard.py, any accepted header in
\* any case and padding
Resolves(f) ==
    \/ InColumns(PRIMARY[f], header)
    \/ /\ variant = "root"
       /\ \E k \in 1..Len(FALLBACKS[f]), i \in 1..Len(header) :
             Norm(header[i]) = Norm(FALLBACKS[f][k])

Unresolved == SelectSeq(RequiredFields, LAMBDA f : ~Resolves(f))

RECURSIVE SumOver(_, _)
SumOver(S, f) ==
    IF S = {} THEN 0
    ELSE LET x == CHOOSE y \in S : TRUE IN f[x] + SumOver(S \ {x}, f)

\* Days since a fixed origin, up to the length of months: orders dates
DayNumber(d) == (d[1] * 12 + d[2]) * 31 + d[3]

\* The raw cells of field f, by row, as the run read them
RawColumn(f) == column_of(rows, header, resolved(variant, header)[f], <<>>)

Shown == view.kind = "dashboard"
PositionsOf(t) == 1..Len(t)

-----------------------------------------------------------------------------
-----------------------------------------------------------------------------
InWindow(d, today) ==
    /\ d # NoDate
    /\ DayNumber(<<today[1], today[2], 1>>) <= DayNumber(d)
    /\ DayNumber(d) <= DayNumber(today)

(* C3: the all-time total is the sum of the amounts of all records; the    *)
(* month total is the sum over exactly the records whose payment date is   *)
(* present and lies between the first of today's month and today, both     *)
(* included.  A record whose date cell does not parse has no date, so it   *)
(* counts in the first total and never in the second.                      *)
C3_Totals ==
    Shown =>
        LET n == Len(rows)
            monthly == {i \in 1..n : InWindow(view.dates[i], view.today)}
        IN /\ view.today = Instants[now].date
           /\ Len(view.amounts) = n /\ Len(view.dates) = n
           /\ view.total_collected_all = SumOver(1..n, view.amounts)
           /\ view.total_collected_month = SumOver(monthly, view.amounts)
           /\ \A i \in 1..n :
                 parse_date_safe(RawColumn(F_DATE)[i]) = NoDate =>
                    view.dates[i] = NoDate /\ i \notin monthly

\* Reached: a sheet with a record dated today and a record whose date cell
\* is no date: the month total counts the first and leaves the second out
C3_Witness ==
    /\ Shown
    /\ \E i, j \in 1..Len(rows) :
          /\ view.dates[i] = view.today
          /\ view.dates[j] = NoDate /\ view.amounts[j] > 0
          /\ view.total_collected_month = view.amounts[i]
          /\ view.total_collected_all = view.amounts[i] + view.amounts[j]

-----------------------------------------------------------------------------
TrimmedUnits == [i \in 1..Len(rows) |-> strip(RawColumn(F_UNIT)[i])]

(* C8: the unit list offered is the sorted set of the distinct non-empty   *)
(* trimmed units, and picking a unit U of that list shows exactly the      *)
(* records whose trimmed unit is U; only the no-filter entry shows all.    *)
C8_UnitFilter ==
    Shown =>
        LET n == Len(rows)
            offered == SubSeq(view.options, 2, Len(view.options))
        IN /\ Range(offered) = Range(TrimmedUnits) \ {<<>>}
           /\ \A a, b \in PositionsOf(offered) : a < b => str_lt(offered[a], offered[b])
           /\ view.sel >= 2 =>
                 /\ Range(view.filtered) = {i \in 1..n : TrimmedUnits[i] = view.options[view.sel]}
                 /\ SumOver(Range(view.filtered), view.amounts)
                      = SumOver({i \in 1..n : TrimmedUnits[i] = view.options[view.sel]},
                                view.amounts)
           /\ view.sel = 1 => view.filtered = [i \in 1..n |-> i]

-----------------------------------------------------------------------------
\* The instant the run, or a reader, takes row i's timestamp cell to be
Instant(i) ==
    IF variant = "root" THEN view.ts_sort[i] ELSE timestamp_of(view.ts_sort[i])

IsPermutation(t, of) ==
    /\ Len(t) = Len(of)
    /\ Range(t) = Range(of)
    /\ \A a, b \in PositionsOf(t) : a # b => t[a] # t[b]

(* C9 as the spec states it: the table is a permutation of the filtered    *)
(* records by timestamp descending, every record whose timestamp cell does *)
(* not parse after every record whose cell parses, records with equal keys *)
(* in source-row order (two records equal in every cell may come in either *)
(* order: nobody can tell).                                                *)
C9_ParsableFirstStable ==
    Shown =>
        LET t == view.table IN
        /\ IsPermutation(t, view.filtered)
        /\ \A a, b \in PositionsOf(t) : a < b =>
              /\ ~(Instant(t[a]) = NaT /\ Instant(t[b]) # NaT)
              /\ (Instant(t[a]) # NaT /\ Instant(t[b]) # NaT) =>
                    ~tuple_lt(Instant(t[a]), Instant(t[b]))
              /\ Instant(t[a]) = Instant(t[b]) => t[a] < t[b] \/ rows[t[a]] = rows[t[b]]

(* C9, as amended: the table is a permutation of the filtered records and  *)
(* sorting never fails.  src/Dashboard.py orders it by parsed timestamp    *)
(* descending with every record pandas could not parse after every record  *)
(* it could, and keeps the source order when the sheet has no timestamp    *)
(* column; the order among equal keys is left to pandas.                   *)
(* src/pages/Dashboard.py orders it by the timestamp text descending in    *)
(* code point order, which puts the empty texts last, and keeps records    *)
(* with equal texts in source-row order.                                   *)
C9_SortOrder ==
    (view.read /\ rows # <<>> /\ Unresolved = <<>>) =>
        /\ Shown
        /\ IsPermutation(view.table, view.filtered)
        /\ LET t == view.table IN
           \A a, b \in PositionsOf(t) : a < b =>
              IF variant = "root"
              THEN IF InColumns(resolved(variant, header)[F_TIMESTAMP], header)
                   THEN /\ ~(view.ts_sort[t[a]] = NaT /\ view.ts_sort[t[b]] # NaT)
                        /\ (view.ts_sort[t[a]] # NaT /\ view.ts_sort[t[b]] # NaT) =>
                              ~tuple_lt(view.ts_sort[t[a]], view.ts_sort[t[b]])
                   ELSE t[a] < t[b]
              ELSE /\ ~str_lt(view.ts_sort[t[a]], view.ts_sort[t[b]])
                   /\ view.ts_sort[t[a]] = view.ts_sort[t[b]] => t[a] < t[b]
                   /\ view.ts_sort[t[a]] = <<>> => view.ts_sort[t[b]] = <<>>

\* Reached: src/Dashboard.py has shown the second record, whose timestamp
\* parses, above the first, whose timestamp is no timestamp
C9_Witness ==
    /\ Shown /\ variant = "root"
    /\ Len(view.table) = 2
    /\ view.table = <<2, 1>>
    /\ view.ts_sort[2] # NaT
    /\ view.ts_sort[1] = NaT

-----------------------------------------------------------------------------
(* The payment form: one submission from validation to the appended row *)

MaxLedger == 2    \* rows the sheet holds before the form stops being used
MaxFiles == 2     \* files the store holds before the form stops being used

NoFile == [present |-> FALSE, name |-> <<>>]
Receipt == [present |-> TRUE, name |-> <<"R", ".", "J", "P", "G">>]

Drafts ==
    [ unit_number  : {<<>>, <<" ">>, <<" ", "2", "A", " ">>},
      tenant_name  : {<<" ">>, <<"A", "l", " ">>},
      amount_paid  : {0, 150000},
      payment_date : {<<2024, 3, 5>>},
      payment_mode : {<<"G", "C", "a", "s", "h">>},
      proof_file   : {NoFile, Receipt},
      notes        : {<<" ", "o", "k">>} ]

\* Where a collaborator call may fail
Failures == {"none", "create", "permission", "open_sheet", "append_row"}

\* A check that lets an amount of 0 through
first_violation_negative_only(d) ==
    IF strip(d.unit_number) = <<>> THEN "unit_number"
    ELSE IF strip(d.tenant_name) = <<>> THEN "tenant_name"
    ELSE IF d.amount_paid < 0 THEN "amount_paid"
    ELSE "none"

\* The three checks of the submit logic, the first that fails
first_violation(d) ==
    IF strip(d.unit_number) = <<>> THEN "unit_number"
    ELSE IF strip(d.tenant_name) = <<>> THEN "tenant_name"
    ELSE IF d.amount_paid <= 0 THEN "amount_paid"
    ELSE "none"

\* strftime("%Y-%m-%d %H:%M:%S") and strftime("%Y-%m-%d_%H%M%S")
timestamp_display(i) ==
    strftime_ymd(i.date) \o <<" ">> \o fmt(i.time[1], 2) \o <<":">>
        \o fmt(i.time[2], 2) \o <<":">> \o fmt(i.time[3], 2)
timestamp_for_filename(i) ==
    strftime_ymd(i.date) \o <<"_">> \o fmt(i.time[1], 2) \o fmt(i.time[2], 2) \o fmt(i.time[3], 2)

\* re.sub(r"\s+", "_", text)
RECURSIVE collapse_whitespace(_)
collapse_whitespace(s) ==
    IF s = <<>> THEN <<>>
    ELSE IF Head(s) \in Whitespace
    THEN <<"_">> \o collapse_whitespace(lstrip(s))
    ELSE <<Head(s)>> \o collapse_whitespace(Tail(s))

safe_filename(text) ==
    LET kept == SelectSeq(collapse_whitespace(strip(text)),
                          LAMBDA c : IsDigit(c) \/ IsUpper(c) \/ IsLower(c) \/ c \in {"_", "-"})
    IN IF kept = <<>> THEN <<"U","N","K","N","O","W","N","_","U","N","I","T">> ELSE kept

RECURSIVE after_last_dot(_)
after_last_dot(s) ==
    IF ~Occurs(".", s) THEN s ELSE after_last_dot(SubSeq(s, FirstIndex(".", s) + 1, Len(s)))

\* "." + original_name.split(".")[-1].lower(), "" for a name without a dot
extension(name) ==
    IF Occurs(".", name) THEN <<".">> \o lower(after_last_dot(name)) ELSE <<>>

receipt_filename(unit, i, file) ==
    safe_filename(unit) \o <<"_">> \o timestamp_for_filename(i) \o extension(file.name)

\* The link upload_receipt_to_drive returns for the file the store named id
share_url(id) ==
    <<"https://drive.google.com/file/d/">> \o digits_of(id) \o <<"/view?usp=sharing">>

\* How the sheet shows a number appended as USER_ENTERED: without a
\* fraction when it has none
sheet_number(hundredths) ==
    IF hundredths % 100 = 0 THEN digits_of(hundredths \div 100)
    ELSE digits_of(hundredths \div 100) \o <<".">> \o fmt(hundredths % 100, 2)

\* A row that keeps the unit as it was typed
payment_row_untrimmed(d, i, proof_file_url) ==
    << timestamp_display(i), d.unit_number, strip(d.tenant_name),
       sheet_number(d.amount_paid), strftime_ymd(d.payment_date), d.payment_mode,
       proof_file_url, strip(d.notes) >>

\* row = [timestamp_display, unit_number.strip(), ...]
payment_row(d, i, proof_file_url) ==
    << timestamp_display(i), strip(d.unit_number), strip(d.tenant_name),
       sheet_number(d.amount_paid), strftime_ymd(d.payment_date), d.payment_mode,
       proof_file_url, strip(d.notes) >>

\* The store after upload_receipt_to_drive got as far as it did: files().create
\* adds the file, permissions().create makes it readable by anyone
drive_after(d, i, fail) ==
    IF ~d.proof_file.present \/ fail = "create" THEN drive
    ELSE Append(drive, [id |-> Len(drive) + 1,
                        name |-> receipt_filename(strip(d.unit_number), i, d.proof_file),
                        public |-> fail # "permission"])

proof_url(d) == IF d.proof_file.present THEN share_url(Len(drive) + 1) ELSE <<>>

\* The submit logic for draft d, the collaborator call named by fail raising
Submit(d, fail) ==
    /\ Len(rows) < MaxLedger
    /\ Len(drive) < MaxFiles
    /\ fail \in {"create", "permission"} => d.proof_file.present
    /\ IF first_violation(d) # "none"
       THEN /\ fail = "none"
            /\ formResult' = [kind |-> "rejected", field |-> first_violation(d)]
            /\ UNCHANGED <<rows, drive>>
       ELSE IF fail # "none"
       THEN /\ formResult' = [kind |-> "error", field |-> fail]
            /\ drive' = drive_after(d, Instants[now], fail)
            /\ UNCHANGED rows
       ELSE /\ formResult' = [kind |-> "saved", field |-> proof_url(d)]
            /\ drive' = drive_after(d, Instants[now], fail)
            /\ rows' = Append(rows, payment_row(d, Instants[now], proof_url(d)))
    /\ UNCHANGED <<variant, secret, header, now, dashboard_auth, view, probe>>

\* Time passes
Tick ==
    /\ now < Len(Instants)
    /\ now' = now + 1
    /\ UNCHANGED <<variant, secret, header, rows, drive, formResult,
                   dashboard_auth, view, probe>>

-----------------------------------------------------------------------------
(* The form and a dashboard session over one sheet, which starts with its  *)
(* header row alone                                                        *)

Init ==
    /\ variant \in {"root", "pages"}
    /\ secret \in {<<>>, PASSWORD}
    /\ header = PRIMARY
    /\ rows = <<>>
    /\ drive = <<>>
    /\ now = 1
    /\ formResult = NoResult
    /\ dashboard_auth = FALSE
    /\ view = NoView
    /\ probe = NoProbe

Next ==
    \/ \E d \in Drafts, fail \in Failures : Submit(d, fail)
    \/ \E pwd \in Passwords : ~dashboard_auth /\ DashboardRun(pwd, 1)
    \/ \E sel \in 1..(Len(rows) + 1) : dashboard_auth /\ DashboardRun(<<>>, sel)
    \/ Tick

Spec == Init /\ [][Next]_vars

\* The form alone
InitForm ==
    /\ variant = "root"
    /\ secret = PASSWORD
    /\ header = PRIMARY
    /\ rows = <<>>
    /\ drive = <<>>
    /\ now = 1
    /\ formResult = NoResult
    /\ dashboard_auth = FALSE
    /\ view = NoView
    /\ probe = NoProbe

NextForm ==
    \/ \E d \in Drafts, fail \in Failures : Submit(d, fail)
    \/ Tick

SpecForm == InitForm /\ [][NextForm]_vars

-----------------------------------------------------------------------------
(* Claims about the payment form                                           *)

Blank(s) == \A i \in 1..Len(s) : s[i] \in Whitespace
Valid(d) == ~Blank(d.unit_number) /\ ~Blank(d.tenant_name) /\ d.amount_paid > 0
ValidDrafts == {d \in Drafts : Valid(d)}
InvalidDrafts == Drafts \ ValidDrafts
Rejected(field) ==
    /\ formResult' = [kind |-> "rejected", field |-> field]
    /\ rows' = rows
    /\ drive' = drive

\* C1: a draft whose unit number is empty after trimming is rejected for the
\* unit number; otherwise one whose tenant name is empty after trimming is
\* rejected for the tenant name; otherwise one whose amount is not above zero
\* is rejected for the amount; a rejected submission leaves the file store and
\* the sheet as they were, and no draft that passes the three checks is
\* rejected.  (A draft that fails a check reaches no collaborator call, so it
\* is submitted with none failing.)
C1_ValidationFailFast ==
    [][/\ \A d \in InvalidDrafts :
             Submit(d, "none") =>
                /\ Blank(d.unit_number) => Rejected("unit_number")
                /\ ~Blank(d.unit_number) /\ Blank(d.tenant_name) => Rejected("tenant_name")
                /\ ~Blank(d.unit_number) /\ ~Blank(d.tenant_name) /\ d.amount_paid <= 0
                      => Rejected("amount_paid")
       /\ formResult'.kind = "rejected" =>
             \A d \in ValidDrafts, fail \in Failures : ~Submit(d, fail)]_vars

\* A submission was rejected for its amount after another one had been saved
C1_Witness ==
    /\ formResult = [kind |-> "rejected", field |-> "amount_paid"]
    /\ Len(rows) = 1

\* C6: when a collaborator call of a submission fails, the failure is shown,
\* no row is appended and no file of that submission stays in the file store.
C6_FailureLeavesNothing ==
    [][\A d \in Drafts, fail \in Failures \ {"none"} :
          Submit(d, fail) =>
             /\ formResult'.kind = "error"
             /\ rows' = rows
             /\ drive' = drive]_vars

\* The row a valid draft must produce, said without the form's own code:
\* the cells hold no outer blanks, the date cell is ten characters that read
\* back as the chosen date, the link cell is empty exactly when no file came
ExpectedRow(d, row) ==
    /\ Len(row) = 8
    /\ StrictTimestampText(row[F_TIMESTAMP])
    /\ timestamp_of(row[F_TIMESTAMP]) = Instants[now].date \o Instants[now].time
    /\ \E a, b \in 0..Len(d.unit_number) :
          /\ a + b < Len(d.unit_number)
          /\ Blank(SubSeq(d.unit_number, 1, a))
          /\ Blank(SubSeq(d.unit_number, Len(d.unit_number) - b + 1, Len(d.unit_number)))
          /\ row[F_UNIT] = SubSeq(d.unit_number, a + 1, Len(d.unit_number) - b)
    /\ row[F_UNIT][1] \notin Whitespace
    /\ row[F_UNIT][Len(row[F_UNIT])] \notin Whitespace
    /\ row[F_NAME] = strip(d.tenant_name)
    /\ to_float_safe(row[F_AMOUNT]) = d.amount_paid
    /\ Len(row[F_DATE]) = 10 /\ parse_date_safe(row[F_DATE]) = d.payment_date
    /\ row[F_MODE] = d.payment_mode
    /\ (row[F_PROOF] = <<>>) <=> ~d.proof_file.present
    /\ row[F_NOTES] = strip(d.notes)

\* C7: the sheet only ever grows, by one row of eight cells at its end for
\* each submission that passes validation and whose collaborator calls all
\* succeed; the cells are timestamp, trimmed unit, trimmed name, amount, date
\* as YYYY-MM-DD, mode, link (empty without a file) and trimmed notes; an
\* identical second submission adds a second row.
C7_AppendOnly ==
    [][/\ header' = header
       /\ rows' = rows \/ (Len(rows') = Len(rows) + 1 /\ SubSeq(rows', 1, Len(rows)) = rows)
       /\ \A d \in ValidDrafts :
             Submit(d, "none") =>
                /\ Len(rows') = Len(rows) + 1
                /\ ExpectedRow(d, rows'[Len(rows')])]_vars

\* The same draft without a file was saved twice and the sheet holds two
\* equal rows
C7_Witness ==
    /\ Len(rows) = 2
    /\ formResult.kind = "saved"
    /\ rows[1] = rows[2]
    /\ rows[1][F_PROOF] = <<>>
    /\ rows[1][F_UNIT] = <<"2", "A">>

\* C10: a session starts unauthenticated; it becomes authenticated only in a
\* run whose typed password equals the configured one, and that run reads
\* nothing; a run reads the sheet only when the session was authenticated
\* when it began, and an authenticated session stays so.
C10_PasswordGate ==
    /\ ~dashboard_auth
    /\ [][/\ dashboard_auth => dashboard_auth'
          /\ view'.read => dashboard_auth
          /\ ~dashboard_auth /\ dashboard_auth' =>
                /\ view'.kind = "rerun"
                /\ view'.pwd = secret
                /\ ~view'.read]_vars

\* An authenticated session has read a sheet that holds a payment
C10_Witness ==
    /\ dashboard_auth
    /\ view.read
    /\ view.kind = "dashboard"
    /\ rows # <<>>

====
